---- MODULE Spec2Model ----
(***************************************************************************)
(* Tracking-link service: link registry (SQLite table `links`), visit      *)
(* recording pipeline (POST /api/track) and the storage operations of      *)
(* DatabaseManager.  Time is a logical clock; uuids are fresh row numbers. *)
(* Optional JavaScript/SQL values are sequences of length <= 1:            *)
(* <<>> is undefined/NULL, <<v>> is the value v.                           *)
(***************************************************************************)
EXTENDS Integers, Sequences, FiniteSets, TLC

VARIABLES links, visitors, now, pc, req, geo, trackResp, httpResp, nUpdates

vars == <<links, visitors, now, pc, req, geo, trackResp, httpResp, nUpdates>>

\* ------------------------------------------------------------------ bounds
MaxLinks == 2
NumProcs == 2
MaxTime == 1
MaxUpdates == 1

Procs == 1..NumProcs
LinkIds == 1..(MaxLinks + 1)

\* ------------------------------------------------------- optional values
None == <<>>
Some(v) == <<v>>

\* JavaScript truthiness of an optional number: undefined, null and 0 are falsy
TruthyNum(o) == o # None /\ o[1] # 0
\* JavaScript truthiness of an optional string: undefined, null and "" are falsy
TruthyStr(o) == o # None /\ o[1] # ""
\* JavaScript truthiness of an optional character sequence (a header value)
TruthySeq(o) == o # None /\ o[1] # <<>>

\* a || b  on optional numbers / strings / character sequences
OrNum(a, b) == IF TruthyNum(a) THEN a ELSE b
OrStr(a, b) == IF TruthyStr(a) THEN a ELSE b
OrSeq(a, b) == IF TruthySeq(a) THEN a ELSE b

\* --------------------------------------------------------------- strings
\* A user-agent is a sequence of characters.
UpperCase == <<"A","B","C","D","E","F","G","H","I","J","K","L","M",
               "N","O","P","Q","R","S","T","U","V","W","X","Y","Z">>
LowerCase == <<"a","b","c","d","e","f","g","h","i","j","k","l","m",
               "n","o","p","q","r","s","t","u","v","w","x","y","z">>

toLowerCaseChar(c) ==
  IF \E i \in 1..26 : UpperCase[i] = c
  THEN LowerCase[CHOOSE i \in 1..26 : UpperCase[i] = c]
  ELSE c

toLowerCase(s) == [i \in 1..Len(s) |-> toLowerCaseChar(s[i])]

\* String.prototype.includes
includes(s, sub) ==
  \E i \in 0..(Len(s) - Len(sub)) :
     \A j \in 1..Len(sub) : s[i + j] = sub[j]

m_mobile == <<"m","o","b","i","l","e">>
m_android == <<"a","n","d","r","o","i","d">>
m_iphone == <<"i","p","h","o","n","e">>
m_tablet == <<"t","a","b","l","e","t">>
m_ipad == <<"i","p","a","d">>
m_chrome == <<"c","h","r","o","m","e">>
m_edg == <<"e","d","g">>
m_firefox == <<"f","i","r","e","f","o","x">>
m_safari == <<"s","a","f","a","r","i">>
m_opera == <<"o","p","e","r","a">>
m_opr == <<"o","p","r">>

parseDevice(ua) ==
  IF includes(ua, m_mobile) \/ includes(ua, m_android) \/ includes(ua, m_iphone)
  THEN "Mobile"
  ELSE IF includes(ua, m_tablet) \/ includes(ua, m_ipad)
       THEN "Tablet"
       ELSE "Desktop"

\* mutant: the Chrome rule without its Edge exclusion
parseBrowser_noEdgGuard(ua) ==
  IF includes(ua, m_chrome) THEN "Chrome"
  ELSE IF includes(ua, m_firefox) THEN "Firefox"
  ELSE IF includes(ua, m_safari) /\ ~includes(ua, m_chrome) THEN "Safari"
  ELSE IF includes(ua, m_edg) THEN "Edge"
  ELSE IF includes(ua, m_opera) \/ includes(ua, m_opr) THEN "Opera"
  ELSE "Unknown"

parseBrowser(ua) ==
  IF includes(ua, m_chrome) /\ ~includes(ua, m_edg) THEN "Chrome"
  ELSE IF includes(ua, m_firefox) THEN "Firefox"
  ELSE IF includes(ua, m_safari) /\ ~includes(ua, m_chrome) THEN "Safari"
  ELSE IF includes(ua, m_edg) THEN "Edge"
  ELSE IF includes(ua, m_opera) \/ includes(ua, m_opr) THEN "Opera"
  ELSE "Unknown"

parseUserAgent(userAgent) ==
  LET ua == toLowerCase(userAgent)
  IN [device |-> parseDevice(ua), browser |-> parseBrowser(ua), userAgent |-> userAgent]

\* ------------------------------------------------------------ IP address
\* An IP address is the sequence of its dot-separated parts:
\* "192.168.1.7" is <<"192","168","1","7">>, "unknown" is <<"unknown">>.
ip_unknown == <<"unknown">>
ip_loopback == <<"127","0","0","1">>
ip_loopback6 == <<"::1">>

\* ip.startsWith(first + '.')
startsWithPart(ip, first) == Len(ip) > 1 /\ ip[1] = first

\* mutant: the test for the prefix 172. left out
isLocalIP_no172(ip) ==
  \/ ip = ip_unknown
  \/ ip = ip_loopback
  \/ ip = ip_loopback6
  \/ startsWithPart(ip, "192") /\ Len(ip) > 2 /\ ip[2] = "168"
  \/ startsWithPart(ip, "10")

isLocalIP(ip) ==
  \/ ip = ip_unknown
  \/ ip = ip_loopback
  \/ ip = ip_loopback6
  \/ startsWithPart(ip, "192") /\ Len(ip) > 2 /\ ip[2] = "168"
  \/ startsWithPart(ip, "10")
  \/ startsWithPart(ip, "172")

\* headers: x-forwarded-for (already split at ','), x-real-ip, remote-addr
getClientIP(h) ==
  IF h.forwarded # <<>> THEN h.forwarded[1]
  ELSE IF h.realIP # None THEN h.realIP[1]
  ELSE IF h.remoteAddr # None THEN h.remoteAddr[1]
  ELSE ip_unknown

\* ------------------------------------------------- DatabaseManager: links
\* Row ids stand for uuids: the n-th inserted row has id n; rows are never
\* physically deleted, so links[id] is the row with that id.
RowIds(rows) == 1..Len(rows)

\* mutant: a lookup that falls back to the first row when the id is not found
getLinkById_fallback(ls, id) ==
  IF id \in RowIds(ls) THEN Some(ls[id]) ELSE IF ls # <<>> THEN Some(ls[1]) ELSE None

getLinkById(ls, id) == IF id \in RowIds(ls) THEN Some(ls[id]) ELSE None

\* mutant: the active flag of the lookup inverted (is_active = 0)
getLinkByAlias_inactive(ls, alias) ==
  IF \E i \in RowIds(ls) : ls[i].alias = alias /\ ~ls[i].is_active
  THEN Some(ls[CHOOSE i \in RowIds(ls) : ls[i].alias = alias /\ ~ls[i].is_active])
  ELSE None

getLinkByAlias(ls, alias) ==
  IF \E i \in RowIds(ls) : ls[i].alias = alias /\ ls[i].is_active
  THEN Some(ls[CHOOSE i \in RowIds(ls) : ls[i].alias = alias /\ ls[i].is_active])
  ELSE None

\* mutant: the alias column declared without UNIQUE
aliasUnique_dropped(ls, alias, self) == TRUE

\* alias TEXT UNIQUE NOT NULL: no other row, active or not, holds the alias
aliasUnique(ls, alias, self) ==
  \A i \in RowIds(ls) : i # self => ls[i].alias # alias

\* the row INSERTed by createLink
createLinkRow(id, alias, originalUrl, description, t, expiresAt) ==
  [id |-> id, alias |-> alias, original_url |-> originalUrl,
   description |-> OrStr(description, None), created_at |-> t,
   expires_at |-> expiresAt, click_count |-> 0, is_active |-> TRUE]

\* the object createLink returns
createLinkReturn(id, alias, originalUrl, description, t, expiresAt) ==
  [id |-> id, alias |-> alias, original_url |-> originalUrl,
   description |-> description, created_at |-> t,
   expires_at |-> expiresAt, click_count |-> 0, is_active |-> TRUE]

\* mutant: the UPDATE without its WHERE clause
incrementClickCount_allRows(ls, linkId) ==
  [i \in RowIds(ls) |-> [ls[i] EXCEPT !.click_count = @ + 1]]

incrementClickCount(ls, linkId) ==
  [i \in RowIds(ls) |->
     IF ls[i].id = linkId THEN [ls[i] EXCEPT !.click_count = @ + 1] ELSE ls[i]]

\* mutant: the row deleted instead of deactivated
deleteLink_physical(ls, id) == SelectSeq(ls, LAMBDA r : r.id # id)

deleteLink(ls, id) ==
  [i \in RowIds(ls) |->
     IF ls[i].id = id THEN [ls[i] EXCEPT !.is_active = FALSE] ELSE ls[i]]

\* mutant: the sweep's comparison made inclusive
cleanupExpiredLinks_inclusive(ls, t) ==
  [i \in RowIds(ls) |->
     IF ls[i].expires_at # None /\ ls[i].expires_at[1] <= t
     THEN [ls[i] EXCEPT !.is_active = FALSE]
     ELSE ls[i]]

\* mutant: the sweep left out
cleanupExpiredLinks_never(ls, t) == ls

cleanupExpiredLinks(ls, t) ==
  [i \in RowIds(ls) |->
     IF ls[i].expires_at # None /\ ls[i].expires_at[1] < t
     THEN [ls[i] EXCEPT !.is_active = FALSE]
     ELSE ls[i]]

\* updates is a function from column names to new values; the key 'id' is
\* filtered out, every other key is written as given
updateFields(u) == DOMAIN u \ {"id"}

updateRow(row, u) ==
  [k \in DOMAIN row |-> IF k \in updateFields(u) THEN u[k] ELSE row[k]]

updateLink(ls, id, u) ==
  IF updateFields(u) = {} THEN ls
  ELSE IF id \notin RowIds(ls) THEN ls
  ELSE IF "alias" \in updateFields(u) /\ ~aliasUnique(ls, u["alias"], id) THEN ls
  ELSE [i \in RowIds(ls) |-> IF ls[i].id = id THEN updateRow(ls[i], u) ELSE ls[i]]

\* ---------------------------------------------- DatabaseManager: visitors
\* the row INSERTed by recordVisitor
recordVisitorRow(id, linkId, d, t) ==
  [id |-> id, link_id |-> linkId, ip_address |-> d.ip_address,
   latitude |-> OrNum(d.latitude, None), longitude |-> OrNum(d.longitude, None),
   country |-> OrStr(d.country, None), city |-> OrStr(d.city, None),
   device |-> OrStr(d.device, None), browser |-> OrStr(d.browser, None),
   user_agent |-> OrSeq(d.user_agent, None), visited_at |-> t]

\* the object recordVisitor returns
recordVisitorReturn(id, linkId, d, t) ==
  [id |-> id, link_id |-> linkId, ip_address |-> d.ip_address,
   latitude |-> d.latitude, longitude |-> d.longitude,
   country |-> d.country, city |-> d.city,
   device |-> d.device, browser |-> d.browser,
   user_agent |-> d.user_agent, visited_at |-> t]

recordVisitor(vs, linkId, d, t) ==
  Append(vs, recordVisitorRow(Len(vs) + 1, linkId, d, t))

visitorsOfLink(vs, linkId) == {i \in RowIds(vs) : vs[i].link_id = linkId}

\* SELECT COUNT(*) ... WHERE link_id = ?
totalClicks(vs, linkId) == Cardinality(visitorsOfLink(vs, linkId))

\* SELECT COUNT(DISTINCT ip_address) ... WHERE link_id = ?
uniqueVisitors(vs, linkId) ==
  Cardinality({vs[i].ip_address : i \in visitorsOfLink(vs, linkId)})

\* -------------------------------------------------------- getLocationFromIP
\* The outcome of the external lookup: a response body, or a failure.
\*   [kind |-> "ok", latitude, longitude, country_name, city]  parsed JSON
\*   [kind |-> "network"]    fetch rejects
\*   [kind |-> "status"]     response.ok is false
\*   [kind |-> "malformed"]  response.json() rejects
localLocation == [country |-> Some("Local"), city |-> Some("Local Development"),
                  latitude |-> Some(0), longitude |-> Some(0)]

unknownLocation == [country |-> Some("Unknown"), city |-> Some("Unknown"),
                    latitude |-> None, longitude |-> None]

\* mutant: the catch block returns the address alone, without the sentinel
lookupResult_bare(o) ==
  IF o.kind = "ok"
  THEN [latitude |-> OrNum(o.latitude, None), longitude |-> OrNum(o.longitude, None),
        country |-> OrStr(o.country_name, None), city |-> OrStr(o.city, None)]
  ELSE [country |-> None, city |-> None, latitude |-> None, longitude |-> None]

lookupResult(o) ==
  IF o.kind = "ok"
  THEN [latitude |-> OrNum(o.latitude, None), longitude |-> OrNum(o.longitude, None),
        country |-> OrStr(o.country_name, None), city |-> OrStr(o.city, None)]
  ELSE unknownLocation

getLocationFromIP(ip, o) ==
  IF isLocalIP(ip) THEN localLocation ELSE lookupResult(o)

\* ------------------------------------------------------------ request inputs
ip_public == <<"8","8","8","8">>
ip_private == <<"192","168","1","7">>

ua_chrome == <<"C","h","r","o","m","e","/","1"," ","S","a","f","a","r","i">>
ua_iphone == <<"i","P","h","o","n","e"," ","S","a","f","a","r","i">>

\* a client: the request headers that carry its address and its user-agent
publicClient ==
  [forwarded |-> <<ip_public, ip_private>>, realIP |-> None, remoteAddr |-> None,
   userAgent |-> Some(ua_chrome)]

privateClient ==
  [forwarded |-> <<>>, realIP |-> Some(ip_private), remoteAddr |-> None,
   userAgent |-> None]

Clients == {publicClient, privateClient}

Latitudes == {None, Some(0), Some(40)}
Longitudes == {None, Some(0), Some(0 - 74)}
Accuracies == {None, Some(1000), Some(1001)}

\* bodies accepted by trackVisitorSchema (gpsEnabled is parsed and never read)
TrackBodies ==
  [linkId : LinkIds, latitude : Latitudes, longitude : Longitudes,
   accuracy : Accuracies, client : Clients]

\* the bodies the interleaving specifications send: no device coordinates,
\* from a public address, so that every accepted request waits for the lookup
RaceBodies ==
  {[linkId |-> l, latitude |-> None, longitude |-> None,
    accuracy |-> None, client |-> publicClient] : l \in LinkIds}

lookupFull ==
  [kind |-> "ok", latitude |-> Some(37), longitude |-> Some(0 - 122),
   country_name |-> Some("United States"), city |-> Some("San Francisco")]

lookupSparse ==
  [kind |-> "ok", latitude |-> Some(0), longitude |-> None,
   country_name |-> None, city |-> Some("")]

LookupFailures == {[kind |-> "network"], [kind |-> "status"], [kind |-> "malformed"]}

LookupOutcomes == {lookupFull, lookupSparse} \cup LookupFailures

RaceOutcomes == {lookupFull}

Aliases == {"promo", "sale"}
Urls == {"https://example.com/landing"}
Descriptions == {None, Some(""), Some("spring")}
Expiries == {None, Some(0)}

\* ------------------------------------------------------------------ responses
NoResp == [status |-> 0, error |-> "", visitor |-> None, coordinates |-> None]
NoBody == [linkId |-> 0]
\* httpResp is the response the step just taken sent from /api/links
\* (NoHttp when the step was not a request to /api/links)
NoHttp == [op |-> "", status |-> 0, error |-> "", link |-> None, links |-> <<>>]

trackError(code, msg) == [status |-> code, error |-> msg, visitor |-> None, coordinates |-> None]

\* the JSON body of a successful track response
trackSuccess(v) ==
  [status |-> 200, error |-> "", visitor |-> Some(v),
   coordinates |-> IF TruthyNum(v.latitude) /\ TruthyNum(v.longitude)
                   THEN Some([lat |-> v.latitude[1], lng |-> v.longitude[1]])
                   ELSE None]

\* ------------------------------------------------------------ POST /api/track
\* mutant: the expiry comparison reversed
linkExpired_reversed(link, t) == link.expires_at # None /\ link.expires_at[1] > t

\* mutant: the expiry comparison made inclusive
linkExpired_inclusive(link, t) == link.expires_at # None /\ link.expires_at[1] <= t

linkExpired(link, t) == link.expires_at # None /\ link.expires_at[1] < t

\* the condition under which the handler asks for the IP-based location
needsIPLocation(b) ==
  \/ ~TruthyNum(b.latitude)
  \/ ~TruthyNum(b.longitude)
  \/ (TruthyNum(b.accuracy) /\ b.accuracy[1] > 1000)

gpsLocation(b) ==
  [latitude |-> b.latitude, longitude |-> b.longitude, country |-> None, city |-> None]

mergedLocation(b, ipLocation) ==
  [latitude |-> OrNum(b.latitude, ipLocation.latitude),
   longitude |-> OrNum(b.longitude, ipLocation.longitude),
   country |-> ipLocation.country, city |-> ipLocation.city]

requestUserAgent(b) == OrSeq(b.client.userAgent, Some(<<>>))[1]

visitorData(b, loc) ==
  LET ua == requestUserAgent(b)
      info == parseUserAgent(ua)
  IN [ip_address |-> getClientIP(b.client),
      latitude |-> loc.latitude, longitude |-> loc.longitude,
      country |-> loc.country, city |-> loc.city,
      device |-> Some(info.device), browser |-> Some(info.browser),
      user_agent |-> Some(ua)]

\* lines 62-93: recordVisitor, incrementClickCount and the response, run
\* without an await between them
RecordAndRespond(p, b, loc) ==
  LET d == visitorData(b, loc)
      id == Len(visitors) + 1
  IN /\ visitors' = recordVisitor(visitors, b.linkId, d, now)
     /\ links' = incrementClickCount(links, b.linkId)
     /\ trackResp' = [trackResp EXCEPT ![p] =
                        trackSuccess(recordVisitorReturn(id, b.linkId, d, now))]
     /\ pc' = [pc EXCEPT ![p] = "done"]

\* the handler up to its first suspension (or to its response)
TrackStart(p, b) ==
  /\ pc[p] = "idle"
  /\ req' = [req EXCEPT ![p] = b]
  /\ LET link == getLinkById(links, b.linkId)
     IN IF link = None \/ ~link[1].is_active
        THEN /\ trackResp' = [trackResp EXCEPT ![p] = trackError(404, "Link not found or inactive")]
             /\ pc' = [pc EXCEPT ![p] = "done"]
             /\ UNCHANGED <<links, visitors, geo>>
        ELSE IF linkExpired(link[1], now)
        THEN /\ trackResp' = [trackResp EXCEPT ![p] = trackError(410, "Link has expired")]
             /\ pc' = [pc EXCEPT ![p] = "done"]
             /\ UNCHANGED <<links, visitors, geo>>
        ELSE IF needsIPLocation(b)
        THEN /\ pc' = [pc EXCEPT ![p] = "geo"]
             /\ geo' = [geo EXCEPT ![p] =
                          IF isLocalIP(getClientIP(b.client)) THEN "local" ELSE "fetch"]
             /\ UNCHANGED <<links, visitors, trackResp>>
        ELSE /\ RecordAndRespond(p, b, gpsLocation(b))
             /\ UNCHANGED geo
  /\ httpResp' = NoHttp
  /\ UNCHANGED <<now, nUpdates>>

\* getLocationFromIP settles with outcome o and the handler runs to its end
TrackResume(p, o) ==
  /\ pc[p] = "geo"
  /\ geo[p] = "local" => o = [kind |-> "network"]
  /\ RecordAndRespond(p, req[p], mergedLocation(req[p], getLocationFromIP(getClientIP(req[p].client), o)))
  /\ httpResp' = NoHttp
  /\ UNCHANGED <<now, req, geo, nUpdates>>

\* ------------------------------------------------------------ POST /api/links
AliasInputs == Aliases \cup {""}

\* createLinkSchema: alias has at least one character (the URL inputs are valid)
validCreate(alias) == alias # ""

createError(code, msg) ==
  [op |-> "POST", status |-> code, error |-> msg, link |-> None, links |-> <<>>]

PostLinks(alias, url, description, expiresAt) ==
  /\ IF ~validCreate(alias)
     THEN /\ httpResp' = createError(400, "Validation failed")
          /\ UNCHANGED links
     ELSE IF getLinkByAlias(links, alias) # None
     THEN /\ httpResp' = createError(400, "Alias already exists. Please choose a different one.")
          /\ UNCHANGED links
     ELSE IF ~aliasUnique(links, alias, 0)
     THEN \* the INSERT violates the UNIQUE constraint and createLink throws
          /\ httpResp' = createError(500, "Internal server error")
          /\ UNCHANGED links
     ELSE /\ Len(links) < MaxLinks
          /\ links' = Append(links, createLinkRow(Len(links) + 1, alias, url, description, now, expiresAt))
          /\ httpResp' = [op |-> "POST", status |-> 201, error |-> "",
                          link |-> Some(createLinkReturn(Len(links) + 1, alias, url, description, now, expiresAt)),
                          links |-> <<>>]
  /\ UNCHANGED <<visitors, now, pc, req, geo, trackResp, nUpdates>>

\* ------------------------------------------------------------- GET /api/links
\* SELECT * FROM links ORDER BY created_at DESC (rows of equal created_at in
\* insertion order)
newestOf(ls, S) ==
  CHOOSE i \in S : \A j \in S :
     \/ ls[i].created_at > ls[j].created_at
     \/ (ls[i].created_at = ls[j].created_at /\ i <= j)

RECURSIVE orderByCreatedDesc(_, _)
orderByCreatedDesc(ls, S) ==
  IF S = {} THEN <<>>
  ELSE LET i == newestOf(ls, S)
       IN <<ls[i]>> \o orderByCreatedDesc(ls, S \ {i})

getAllLinks(ls) == orderByCreatedDesc(ls, RowIds(ls))

withStats(row, vs) ==
  [link |-> row, totalClicks |-> totalClicks(vs, row.id),
   uniqueVisitors |-> uniqueVisitors(vs, row.id)]

AliasQueries == {None} \cup {Some(a) : a \in Aliases}

GetLinks(alias) ==
  LET swept == cleanupExpiredLinks(links, now)
  IN /\ links' = swept
     /\ IF TruthyStr(alias)
        THEN LET link == getLinkByAlias(swept, alias[1])
             IN httpResp' = IF link = None
                            THEN [op |-> "GET", status |-> 404, error |-> "Link not found",
                                  link |-> None, links |-> <<>>]
                            ELSE [op |-> "GET", status |-> 200, error |-> "",
                                  link |-> Some(withStats(link[1], visitors)), links |-> <<>>]
        ELSE LET all == getAllLinks(swept)
             IN httpResp' = [op |-> "GET", status |-> 200, error |-> "", link |-> None,
                             links |-> [i \in 1..Len(all) |-> withStats(all[i], visitors)]]
     /\ UNCHANGED <<visitors, now, pc, req, geo, trackResp, nUpdates>>

\* --------------------------------------------------- direct storage operations
DeleteLink(id) ==
  /\ links' = deleteLink(links, id)
  /\ httpResp' = NoHttp
  /\ UNCHANGED <<visitors, now, pc, req, geo, trackResp, nUpdates>>

UpdateInputs ==
  { [k \in {"click_count"} |-> 0],
    [k \in {"is_active"} |-> TRUE],
    [k \in {"alias"} |-> "promo"],
    [k \in {"id"} |-> 2],
    [k \in {"id", "expires_at"} |-> IF k = "id" THEN 2 ELSE None] }

UpdateLink(id, u) ==
  /\ nUpdates < MaxUpdates
  /\ nUpdates' = nUpdates + 1
  /\ links' = updateLink(links, id, u)
  /\ httpResp' = NoHttp
  /\ UNCHANGED <<visitors, now, pc, req, geo, trackResp>>

\* the clock advances
Tick ==
  /\ now < MaxTime
  /\ now' = now + 1
  /\ httpResp' = NoHttp
  /\ UNCHANGED <<links, visitors, pc, req, geo, trackResp, nUpdates>>

\* ------------------------------------------------------------- specifications
Init ==
  /\ links = <<>>
  /\ visitors = <<>>
  /\ now = 0
  /\ pc = [p \in Procs |-> "idle"]
  /\ req = [p \in Procs |-> NoBody]
  /\ geo = [p \in Procs |-> "none"]
  /\ trackResp = [p \in Procs |-> NoResp]
  /\ httpResp = NoHttp
  /\ nUpdates = 0

\* every handler and deleteLink, with one tracking request in flight at a time
Next ==
  \/ \E b \in RaceBodies : TrackStart(1, b)
  \/ \E o \in RaceOutcomes : TrackResume(1, o)
  \/ \E a \in AliasInputs, u \in Urls, d \in Descriptions, e \in Expiries : PostLinks(a, u, d, e)
  \/ \E a \in AliasQueries : GetLinks(a)
  \/ \E id \in LinkIds : DeleteLink(id)
  \/ Tick

Spec == Init /\ [][Next]_vars

\* the storage layer driven directly as well: updateLink included
NextStore ==
  \/ Next
  \/ \E id \in LinkIds, u \in UpdateInputs : UpdateLink(id, u)

SpecStore == Init /\ [][NextStore]_vars

\* concurrent tracking requests against a table of two links, interleaved
\* with deactivation, the expiration sweep and the clock
RaceTables ==
  {<<createLinkRow(1, "promo", "https://example.com/landing", None, 0, e1),
     createLinkRow(2, "sale", "https://example.com/landing", None, 0, e2)>> :
     e1 \in Expiries, e2 \in Expiries}

InitRace ==
  /\ links \in RaceTables
  /\ visitors = <<>>
  /\ now = 0
  /\ pc = [p \in Procs |-> "idle"]
  /\ req = [p \in Procs |-> NoBody]
  /\ geo = [p \in Procs |-> "none"]
  /\ trackResp = [p \in Procs |-> NoResp]
  /\ httpResp = NoHttp
  /\ nUpdates = 0

NextRace ==
  \/ \E p \in Procs, b \in RaceBodies : TrackStart(p, b)
  \/ \E p \in Procs, o \in RaceOutcomes : TrackResume(p, o)
  \/ \E id \in LinkIds : DeleteLink(id)
  \/ GetLinks(None)
  \/ Tick

SpecRace == InitRace /\ [][NextRace]_vars

\* one tracking request at a time against a table holding one link, over
\* every body of TrackBodies and every outcome of the lookup
TrackTables ==
  LET fresh(e) == <<createLinkRow(1, "promo", "https://example.com/landing", None, 0, e)>>
  IN {fresh(e) : e \in Expiries} \cup {deleteLink(fresh(e), 1) : e \in Expiries}

InitTrack ==
  /\ links \in TrackTables
  /\ visitors = <<>>
  /\ now \in 0..MaxTime
  /\ pc = [p \in Procs |-> "idle"]
  /\ req = [p \in Procs |-> NoBody]
  /\ geo = [p \in Procs |-> "none"]
  /\ trackResp = [p \in Procs |-> NoResp]
  /\ httpResp = NoHttp
  /\ nUpdates = 0

NextTrack ==
  \/ \E b \in TrackBodies : TrackStart(1, b)
  \/ \E o \in LookupOutcomes : TrackResume(1, o)

SpecTrack == InitTrack /\ [][NextTrack]_vars

\* ------------------------------------------ clients of every address and agent
\* addresses on either side of each test of getLocationFromIP
ClientAddresses ==
  {ip_loopback, ip_loopback6, ip_private, ip_public,
   <<"10","0","0","5">>, <<"172","16","0","1">>, <<"172","217","0","1">>,
   <<"127","0","0","2">>, <<"100","1","1","1">>, <<"192","169","1","1">>,
   <<"1","10","0","1">>}

\* the address headers of a request: the address in x-forwarded-for, in
\* x-real-ip, in remote-addr, or in no header at all
AddressHeaders ==
  {[forwarded |-> <<ip>>, realIP |-> None, remoteAddr |-> None] : ip \in ClientAddresses}
  \cup {[forwarded |-> <<>>, realIP |-> Some(ip_loopback6), remoteAddr |-> Some(ip_public)],
        [forwarded |-> <<>>, realIP |-> None, remoteAddr |-> Some(ip_loopback6)],
        [forwarded |-> <<>>, realIP |-> None, remoteAddr |-> None]}

\* the product tokens a user-agent header is made of
agentWords ==
  << <<"C","h","r","o","m","e">>, <<"E","d","g">>, <<"F","i","r","e","f","o","x">>,
     <<"S","a","f","a","r","i">>, <<"O","P","R">>, <<"O","p","e","r","a">> >>

\* the user-agent naming the tokens of S, in the order of agentWords
RECURSIVE agentOf(_, _)
agentOf(S, i) ==
  IF i > Len(agentWords) THEN <<>>
  ELSE (IF i \in S THEN agentWords[i] \o <<"/","1"," ">> ELSE <<>>) \o agentOf(S, i + 1)

ClientAgents == {agentOf(S, 1) : S \in SUBSET (1..Len(agentWords))}

AgentHeaders == {None} \cup {Some(ua) : ua \in ClientAgents}

\* bodies without device coordinates, from every client
ClientBodies ==
  {[linkId |-> 1, latitude |-> None, longitude |-> None, accuracy |-> None,
    client |-> [forwarded |-> h.forwarded, realIP |-> h.realIP,
                remoteAddr |-> h.remoteAddr, userAgent |-> ua]] :
     h \in AddressHeaders, ua \in AgentHeaders}

\* one tracking request against a live link, from every client
InitClient ==
  /\ links = <<createLinkRow(1, "promo", "https://example.com/landing", None, 0, None)>>
  /\ visitors = <<>>
  /\ now = 0
  /\ pc = [p \in Procs |-> "idle"]
  /\ req = [p \in Procs |-> NoBody]
  /\ geo = [p \in Procs |-> "none"]
  /\ trackResp = [p \in Procs |-> NoResp]
  /\ httpResp = NoHttp
  /\ nUpdates = 0

NextClient ==
  \/ \E b \in ClientBodies : TrackStart(1, b)
  \/ \E o \in LookupOutcomes : TrackResume(1, o)

SpecClient == InitClient /\ [][NextClient]_vars

\* ------------------------------------------------- the lookup that may not end
\* getLocationFromIP returned at once: the address was a local one
ResumeLocal(p) == geo[p] = "local" /\ TrackResume(p, [kind |-> "network"])

\* the fetch of the lookup service settles with outcome o
LookupSettles(p, o) == geo[p] = "fetch" /\ TrackResume(p, o)

NextLive ==
  \/ \E b \in TrackBodies : TrackStart(1, b)
  \/ ResumeLocal(1)
  \/ \E o \in LookupOutcomes : LookupSettles(1, o)

\* The event loop runs the continuation of a getLocationFromIP that returned
\* without a fetch; the fetch carries no timeout and no AbortSignal, so
\* nothing obliges it to settle.
SpecLive ==
  /\ InitTrack
  /\ [][NextLive]_vars
  /\ WF_vars(ResumeLocal(1))

\* ---------------------------------------------------------- JavaScript numbers
\* A number is finite, NaN or Infinity (JSON.stringify writes the last two as null).
jsNum(n) == [kind |-> "finite", value |-> n]
jsNaN == [kind |-> "NaN", value |-> 0]
jsInfinity == [kind |-> "Infinity", value |-> 0]

decimalDigits == <<"0","1","2","3","4","5","6","7","8","9">>

isDigit(c) == \E i \in DOMAIN decimalDigits : decimalDigits[i] = c

digitValue(c) == (CHOOSE i \in DOMAIN decimalDigits : decimalDigits[i] = c) - 1

RECURSIVE digitsValue(_)
digitsValue(ds) ==
  IF ds = <<>> THEN 0
  ELSE 10 * digitsValue(SubSeq(ds, 1, Len(ds) - 1)) + digitValue(ds[Len(ds)])

\* parseInt(s): an optional sign, then the longest prefix of decimal digits;
\* NaN when there is no digit
parseInt(s) ==
  LET signed == s # <<>> /\ s[1] \in {"-", "+"}
      body == IF signed THEN Tail(s) ELSE s
      n == Cardinality({i \in DOMAIN body : \A j \in 1..i : isDigit(body[j])})
      magnitude == digitsValue(SubSeq(body, 1, n))
  IN IF n = 0 THEN jsNaN
     ELSE IF signed /\ s[1] = "-" THEN jsNum(0 - magnitude) ELSE jsNum(magnitude)

\* Math.round(a / d) for an integer a >= 0: halves round towards +Infinity
roundedQuotient(a, d) ==
  IF d.kind # "finite" THEN jsNaN
  ELSE IF d.value = 0 THEN (IF a = 0 THEN jsNaN ELSE jsInfinity)
  ELSE IF d.value > 0 THEN jsNum((2 * a + d.value) \div (2 * d.value))
  ELSE jsNum((0 - 2 * a - d.value) \div (0 - 2 * d.value))

\* ------------------------------------------------- DatabaseManager: analytics
\* The clock counts hours: an ISO date is t \div 24 and an hour of day t % 24.
\* db is the database: [links |-> the links table, visitors |-> the visitors table].
RECURSIVE orderByVisitedDesc(_, _)
\* ORDER BY visited_at DESC (rows of equal visited_at in insertion order)
orderByVisitedDesc(vs, S) ==
  IF S = {} THEN <<>>
  ELSE LET i == CHOOSE i \in S : \A j \in S :
                  \/ vs[i].visited_at > vs[j].visited_at
                  \/ (vs[i].visited_at = vs[j].visited_at /\ i <= j)
       IN <<vs[i]>> \o orderByVisitedDesc(vs, S \ {i})

\* mutant: the visits read through a join on the active links
getVisitorsByLinkId_activeOnly(db, linkId) ==
  orderByVisitedDesc(db.visitors,
    {i \in RowIds(db.visitors) :
       /\ db.visitors[i].link_id = linkId
       /\ \E l \in RowIds(db.links) : db.links[l].id = linkId /\ db.links[l].is_active})

getVisitorsByLinkId(db, linkId) ==
  orderByVisitedDesc(db.visitors, visitorsOfLink(db.visitors, linkId))

getVisitorsByDateRange(db, startDate, endDate) ==
  orderByVisitedDesc(db.visitors,
    {i \in RowIds(db.visitors) :
       startDate <= db.visitors[i].visited_at /\ db.visitors[i].visited_at <= endDate})

\* the distinct elements of s, in the order of their first occurrence
RECURSIVE distinctInOrder(_)
distinctInOrder(s) ==
  IF s = <<>> THEN <<>>
  ELSE LET front == distinctInOrder(SubSeq(s, 1, Len(s) - 1))
           last == s[Len(s)]
       IN IF \E i \in DOMAIN front : front[i] = last THEN front ELSE Append(front, last)

countOf(s, k) == Cardinality({i \in DOMAIN s : s[i] = k})

\* the entries of the object a reduce over keys s builds: one per key, in the
\* order the keys were first written
countEntries(s) ==
  LET ks == distinctInOrder(s)
  IN [i \in DOMAIN ks |-> [key |-> ks[i], count |-> countOf(s, ks[i])]]

\* sort by count descending; entries of equal count keep their order
RECURSIVE sortByCountDesc(_)
sortByCountDesc(es) ==
  IF es = <<>> THEN <<>>
  ELSE LET i == CHOOSE i \in DOMAIN es : \A j \in DOMAIN es :
                  \/ es[i].count > es[j].count
                  \/ (es[i].count = es[j].count /\ i <= j)
       IN <<es[i]>> \o sortByCountDesc(SubSeq(es, 1, i - 1) \o SubSeq(es, i + 1, Len(es)))

firstN(s, n) == SubSeq(s, 1, IF Len(s) < n THEN Len(s) ELSE n)

\* the rows a statistics query ranges over: those of the link, or all of them
statsScope(db, linkId) ==
  IF linkId # None THEN visitorsOfLink(db.visitors, linkId[1]) ELSE RowIds(db.visitors)

\* totals, the ten most frequent countries (countries of equal count in the
\* order of their first row) and the ten latest visits
getClickStats(db, linkId) ==
  LET vs == db.visitors
      scope == statsScope(db, linkId)
      named == SelectSeq(vs, LAMBDA v : v.id \in scope /\ v.country # None)
  IN [totalClicks |-> Cardinality(scope),
      uniqueVisitors |-> Cardinality({vs[i].ip_address : i \in scope}),
      countries |-> firstN(sortByCountDesc(countEntries([i \in DOMAIN named |-> named[i].country[1]])), 10),
      recentVisits |-> firstN(orderByVisitedDesc(vs, scope), 10)]

\* ------------------------------------------------------- GET /api/analytics
\* the route's visitors: all visits of the link, or the visits of the window
analyticsVisitors(db, linkId, days, t) ==
  IF linkId # None THEN getVisitorsByLinkId(db, linkId[1])
  ELSE getVisitorsByDateRange(db, t - 24 * days.value, t)

\* an object built by counting keys: a function from the keys to their counts
countObject(keys) ==
  [k \in {keys[i] : i \in DOMAIN keys} |-> countOf(keys, k)]

dailyVisits(vs) == countObject([i \in DOMAIN vs |-> vs[i].visited_at \div 24])

hourlyStats(vs) == countObject([i \in DOMAIN vs |-> vs[i].visited_at % 24])

deviceStats(vs) ==
  countEntries([i \in DOMAIN vs |-> OrStr(vs[i].device, Some("Unknown"))[1]])

browserStats(vs) ==
  countEntries([i \in DOMAIN vs |-> OrStr(vs[i].browser, Some("Unknown"))[1]])

topCities(vs) ==
  LET located == SelectSeq(vs, LAMBDA v : TruthyStr(v.city))
  IN firstN(sortByCountDesc(countEntries([i \in DOMAIN located |-> located[i].city[1]])), 10)

visitorCoordinates(vs) ==
  LET placed == SelectSeq(vs, LAMBDA v : TruthyNum(v.latitude) /\ TruthyNum(v.longitude))
  IN [i \in DOMAIN placed |->
        [id |-> placed[i].id, lat |-> placed[i].latitude[1], lng |-> placed[i].longitude[1],
         country |-> placed[i].country, city |-> placed[i].city,
         timestamp |-> placed[i].visited_at,
         device |-> placed[i].device, browser |-> placed[i].browser]]

\* the 'days' parameter: searchParams.get('days') || '30', parsed
requestedDays(daysParam) == parseInt(OrSeq(daysParam, Some(<<"3","0">>))[1])

\* the analytics object of the response
getAnalytics(db, linkId, days, t) ==
  LET stats == getClickStats(db, linkId)
      vs == analyticsVisitors(db, linkId, days, t)
  IN [overview |-> [totalClicks |-> stats.totalClicks,
                    uniqueVisitors |-> stats.uniqueVisitors,
                    countries |-> Len(stats.countries),
                    avgClicksPerDay |-> roundedQuotient(stats.totalClicks, days)],
      timeline |-> [dailyVisits |-> dailyVisits(vs), hourlyStats |-> hourlyStats(vs)],
      demographics |-> [countries |-> stats.countries, topCities |-> topCities(vs),
                        devices |-> deviceStats(vs), browsers |-> browserStats(vs)],
      geography |-> [visitors |-> visitorCoordinates(vs)],
      recentActivity |-> firstN(stats.recentVisits, 20)]

LinkQueries == {None} \cup {Some(id) : id \in LinkIds}

DaysParams ==
  {None, Some(<<>>), Some(<<"0">>), Some(<<"1">>), Some(<<"2">>),
   Some(<<"-","1">>), Some(<<"7","d">>), Some(<<"x">>)}

GetAnalytics(linkId, daysParam) ==
  LET days == requestedDays(daysParam)
      db == [links |-> links, visitors |-> visitors]
  IN /\ httpResp' =
          IF linkId = None /\ days.kind # "finite"
          THEN \* startDate is an Invalid Date and its toISOString() throws
               [op |-> "ANALYTICS", status |-> 500, error |-> "Internal server error",
                link |-> None, links |-> <<>>]
          ELSE [op |-> "ANALYTICS", status |-> 200, error |-> "",
                link |-> None, links |-> <<>>,
                analytics |-> getAnalytics(db, linkId, days, now)]
     /\ UNCHANGED <<links, visitors, now, pc, req, geo, trackResp, nUpdates>>

\* ------------------------------------------------ analytics over a visit log
\* The visits a log is made of: the request body and the outcome of its lookup.
iphoneClient ==
  [forwarded |-> <<>>, realIP |-> None, remoteAddr |-> Some(<<"9","9","9","9">>),
   userAgent |-> Some(ua_iphone)]

HistoryInputs ==
  << [body |-> [linkId |-> 1, latitude |-> None, longitude |-> None, accuracy |-> None,
                client |-> publicClient],
      outcome |-> lookupFull],
     [body |-> [linkId |-> 1, latitude |-> None, longitude |-> None, accuracy |-> None,
                client |-> privateClient],
      outcome |-> [kind |-> "network"]],
     [body |-> [linkId |-> 1, latitude |-> Some(40), longitude |-> Some(0 - 74),
                accuracy |-> None, client |-> iphoneClient],
      outcome |-> lookupFull],
     [body |-> [linkId |-> 1, latitude |-> None, longitude |-> None, accuracy |-> None,
                client |-> publicClient],
      outcome |-> [kind |-> "status"]] >>

\* the location the track handler records for body b when its lookup gives o
visitLocation(b, o) ==
  IF needsIPLocation(b)
  THEN mergedLocation(b, getLocationFromIP(getClientIP(b.client), o))
  ELSE gpsLocation(b)

\* Two histories: in the first every visit is of link 1 and six hours after
\* the one before; in the second the visits alternate between the links and
\* come in pairs of equal time, twelve hours apart.
Histories == {1, 2}

historyLink(h, i) == IF h = 1 THEN 1 ELSE 1 + (i % 2)

historyTime(h, i) == IF h = 1 THEN 6 * i ELSE 12 * ((i + 1) \div 2)

historyInput(h, i) == HistoryInputs[((i + h) % Len(HistoryInputs)) + 1]

\* the visitors table after the first n visits of history h were recorded
visitLog(h, n) ==
  [i \in 1..n |->
     LET visit == historyInput(h, i)
     IN recordVisitorRow(i, historyLink(h, i),
                         visitorData(visit.body, visitLocation(visit.body, visit.outcome)),
                         historyTime(h, i))]

\* the most visits a log holds
MaxVisits == 12

\* the links table of a log: two links created at 0 with the counters of their
\* recorded visits; link 1 may expire at the time of the last visit
logLinks(vs, expiresAt) ==
  << [createLinkRow(1, "promo", "https://example.com/landing", None, 0, expiresAt)
        EXCEPT !.click_count = totalClicks(vs, 1)],
     [createLinkRow(2, "sale", "https://example.com/landing", None, 0, None)
        EXCEPT !.click_count = totalClicks(vs, 2)] >>

InitAnalytics ==
  \E h \in Histories, n \in 0..MaxVisits, expiring \in BOOLEAN :
    LET last == IF n = 0 THEN 0 ELSE historyTime(h, n)
    IN /\ visitors = visitLog(h, n)
       /\ now = last + 1
       /\ links = logLinks(visitLog(h, n), IF expiring THEN Some(last) ELSE None)
       /\ pc = [p \in Procs |-> "idle"]
       /\ req = [p \in Procs |-> NoBody]
       /\ geo = [p \in Procs |-> "none"]
       /\ trackResp = [p \in Procs |-> NoResp]
       /\ httpResp = NoHttp
       /\ nUpdates = 0

\* the analytics route read while links are deactivated and swept
NextAnalytics ==
  \/ \E l \in LinkQueries, d \in DaysParams : GetAnalytics(l, d)
  \/ \E id \in LinkIds : DeleteLink(id)
  \/ GetLinks(None)

SpecAnalytics == InitAnalytics /\ [][NextAnalytics]_vars

\* ------------------------------------------- a failing incrementClickCount
\* recordVisitor has inserted the row and incrementClickCount throws: the two
\* statements share no transaction, so the row stays, and the catch block
\* answers 500
RecordThenFail(p, b, loc) ==
  /\ visitors' = recordVisitor(visitors, b.linkId, visitorData(b, loc), now)
  /\ trackResp' = [trackResp EXCEPT ![p] = trackError(500, "Internal server error")]
  /\ pc' = [pc EXCEPT ![p] = "done"]
  /\ UNCHANGED links

\* getLocationFromIP settles with outcome o and the store fails on the UPDATE
TrackResumeFault(p, o) ==
  /\ pc[p] = "geo"
  /\ geo[p] = "local" => o = [kind |-> "network"]
  /\ RecordThenFail(p, req[p], mergedLocation(req[p], getLocationFromIP(getClientIP(req[p].client), o)))
  /\ httpResp' = NoHttp
  /\ UNCHANGED <<now, req, geo, nUpdates>>

\* concurrent tracking requests as in SpecRace, over a store whose UPDATE may fail
NextFault ==
  \/ NextRace
  \/ \E p \in Procs, o \in RaceOutcomes : TrackResumeFault(p, o)

SpecFault == InitRace /\ [][NextFault]_vars

\* ===================================================================== claims
aliasConflictMessage == "Alias already exists. Please choose a different one."

\* the step in which process p's tracking request is received
TrackReceived(p) == pc[p] = "idle" /\ pc'[p] # "idle"

\* the row appended by the step
newVisitor == visitors'[Len(visitors')]

\* C1: when N concurrent track-visit requests against a link have completed,
\* the link's click_count and its number of visit rows both equal N; stated
\* for every reachable state: the counter and the row count of every link equal
\* the number of tracking requests for it that have completed successfully.
C1_NoLostIncrement ==
  \A l \in RowIds(links) :
    LET completed == {p \in Procs : pc[p] = "done" /\ trackResp[p].status = 200
                                      /\ req[p].linkId = l}
    IN /\ links[l].click_count = Cardinality(completed)
       /\ totalClicks(visitors, l) = Cardinality(completed)

\* every process has tracked the same link successfully
C1_Witness ==
  \E l \in RowIds(links) :
    /\ \A p \in Procs : pc[p] = "done" /\ trackResp[p].status = 200 /\ req[p].linkId = l
    /\ links[l].click_count = NumProcs

\* C2: a track-visit request received while its link is deactivated or expired
\* fails (404 or 410), inserts no visit row and leaves every link unchanged.
C2_DeadLinkRejected ==
  [][\A p \in Procs :
       (/\ TrackReceived(p)
        /\ req'[p].linkId \in RowIds(links)
        /\ \/ ~links[req'[p].linkId].is_active
           \/ /\ links[req'[p].linkId].expires_at # None
              /\ links[req'[p].linkId].expires_at[1] < now)
       => /\ pc'[p] = "done"
          /\ trackResp'[p].status \in {404, 410}
          /\ visitors' = visitors
          /\ links' = links]_vars

\* a request for an existing, deactivated link was answered 404
C2_Witness ==
  \E p \in Procs :
    /\ pc[p] = "done" /\ trackResp[p].status = 404
    /\ req[p].linkId \in RowIds(links)
    /\ ~links[req[p].linkId].is_active

\* C3: create-link with the alias of a currently active link is answered 400
\* 'Alias already exists', and the links table is unchanged.
C3_AliasConflict ==
  [][httpResp'.op = "POST" =>
     \A a \in AliasInputs, u \in Urls, d \in Descriptions, e \in Expiries :
       (/\ PostLinks(a, u, d, e)
        /\ \E i \in RowIds(links) : links[i].alias = a /\ links[i].is_active)
       => /\ httpResp'.status = 400
          /\ httpResp'.error = aliasConflictMessage
          /\ httpResp'.link = None
          /\ links' = links]_vars

\* a create-link request has just been refused for its alias
C3_Witness ==
  /\ httpResp.op = "POST" /\ httpResp.status = 400
  /\ httpResp.error = aliasConflictMessage
  /\ \E i \in RowIds(links) : links[i].is_active

\* C4: create-link with an alias held only by deactivated links succeeds with
\* a new active link of a new id and zero counter.
C4_ReuseAfterDeactivate ==
  [][httpResp'.op = "POST" =>
     \A a \in Aliases, u \in Urls, d \in Descriptions, e \in Expiries :
       (/\ PostLinks(a, u, d, e)
        /\ \E i \in RowIds(links) : links[i].alias = a
        /\ \A i \in RowIds(links) : links[i].alias = a => ~links[i].is_active)
       => /\ httpResp'.status = 201
          /\ Len(links') = Len(links) + 1
          /\ links'[Len(links')].alias = a
          /\ links'[Len(links')].is_active
          /\ links'[Len(links')].click_count = 0]_vars

\* C5: in every reachable state at most one active link holds any alias.
C5_ActiveAliasUnique ==
  \A i \in RowIds(links), j \in RowIds(links) :
    (i # j /\ links[i].is_active /\ links[j].is_active) => links[i].alias # links[j].alias

\* two active links stand side by side after updateLink has run
C5_Witness ==
  /\ nUpdates > 0
  /\ \E i \in RowIds(links), j \in RowIds(links) :
       i # j /\ links[i].is_active /\ links[j].is_active

\* C6: after a successful create-link, the active link found under the alias
\* has the id the response reports, the alias, URL, description and expiry that
\* were given, click_count 0 and is_active true.
C6_CreateThenFind ==
  [][httpResp'.op = "POST" =>
     \A a \in AliasInputs, u \in Urls, d \in Descriptions, e \in Expiries :
       (PostLinks(a, u, d, e) /\ httpResp'.status = 201)
       => LET found == getLinkByAlias(links', a)
          IN /\ found # None
             /\ found[1].id = httpResp'.link[1].id
             /\ found[1].alias = a
             /\ found[1].original_url = u
             /\ found[1].description = d
             /\ found[1].expires_at = e
             /\ found[1].click_count = 0
             /\ found[1].is_active]_vars

\* C7: no step of a storage operation lowers a link's click_count, and the
\* counter is never negative.
C7_CounterMonotone ==
  [][\A i \in RowIds(links) :
       /\ i \in RowIds(links')
       /\ links'[i].click_count >= links[i].click_count
       /\ links'[i].click_count >= 0]_vars

\* C8: a received track-visit request is answered 404 exactly when its link id
\* names no link or an inactive link, and 410 exactly when the link exists, is
\* active and its expiration is before the current time, swept or not.
C8_DistinctFailures ==
  [][\A p \in Procs :
       TrackReceived(p) =>
         LET l == req'[p].linkId
             missing == l \notin RowIds(links) \/ ~links[l].is_active
             expired == /\ ~missing
                        /\ links[l].expires_at # None
                        /\ links[l].expires_at[1] < now
         IN /\ (trackResp'[p].status = 404) <=> missing
            /\ (trackResp'[p].status = 410) <=> expired
            /\ missing => trackResp'[p].error = "Link not found or inactive"
            /\ expired => trackResp'[p].error = "Link has expired"]_vars

\* a request was answered 410 for a link the sweep has not deactivated
C8_Witness ==
  \E p \in Procs :
    /\ pc[p] = "done" /\ trackResp[p].status = 410
    /\ req[p].linkId \in RowIds(links)
    /\ links[req[p].linkId].is_active

\* C9: a track-visit request for a live link that supplies both coordinates,
\* with accuracy absent or at most 1000, is recorded at once with exactly those
\* coordinates, no country and no city, without the resolver being invoked.
C9_DeviceCoordinatesKept ==
  [][\A p \in Procs :
       (/\ TrackReceived(p)
        /\ trackResp'[p].status \notin {404, 410}
        /\ req'[p].latitude # None
        /\ req'[p].longitude # None
        /\ (req'[p].accuracy = None \/ req'[p].accuracy[1] <= 1000))
       => /\ pc'[p] = "done"
          /\ geo'[p] = "none"
          /\ Len(visitors') = Len(visitors) + 1
          /\ newVisitor.latitude = req'[p].latitude
          /\ newVisitor.longitude = req'[p].longitude
          /\ newVisitor.country = None
          /\ newVisitor.city = None]_vars

\* C10: when the external lookup fails, the request still succeeds: one visit
\* row with country and city 'Unknown' is appended for the link and the link's
\* counter grows by one.
C10_LookupFailureAbsorbed ==
  [][\A p \in Procs, o \in LookupFailures :
       (TrackResume(p, o) /\ geo[p] = "fetch")
       => /\ getLocationFromIP(getClientIP(req[p].client), o) = unknownLocation
          /\ trackResp'[p].status = 200
          /\ Len(visitors') = Len(visitors) + 1
          /\ newVisitor.link_id = req[p].linkId
          /\ newVisitor.country = Some("Unknown")
          /\ newVisitor.city = Some("Unknown")
          /\ links'[req[p].linkId].click_count = links[req[p].linkId].click_count + 1]_vars

\* a request whose lookup failed has completed with the sentinel recorded
C10_Witness ==
  \E p \in Procs :
    /\ pc[p] = "done" /\ geo[p] = "fetch" /\ trackResp[p].status = 200
    /\ \E i \in RowIds(visitors) :
         /\ visitors[i].id = trackResp[p].visitor[1].id
         /\ visitors[i].country = Some("Unknown")
         /\ visitors[i].city = Some("Unknown")

\* the addresses the statement lists: 127.0.0.1 and the prefixes 192.168., 10., 172.
listedLocal(ip) ==
  \/ ip = <<"127","0","0","1">>
  \/ Len(ip) > 2 /\ ip[1] = "192" /\ ip[2] = "168"
  \/ Len(ip) > 1 /\ ip[1] = "10"
  \/ Len(ip) > 1 /\ ip[1] = "172"

\* C11 as stated: a request whose location is resolved from its address skips
\* the external lookup and gets the local sentinel when the address is
\* 127.0.0.1 or starts with 192.168., 10. or 172., and the lookup is attempted
\* for every other address.
C11_OnlyListedShortCircuit ==
  [][\A p \in Procs :
       (TrackReceived(p) /\ pc'[p] = "geo") =>
         LET ip == getClientIP(req'[p].client)
         IN /\ listedLocal(ip) =>
                 /\ geo'[p] = "local"
                 /\ \A o \in LookupOutcomes : getLocationFromIP(ip, o) = localLocation
            /\ ~listedLocal(ip) => geo'[p] = "fetch"]_vars

\* C11 amended: the lookup is skipped, and the local sentinel returned, for
\* 127.0.0.1, the prefixes 192.168., 10. and 172., the IPv6 loopback ::1 and
\* the placeholder 'unknown' of a request without address headers; it is
\* attempted for every other address.
C11_LocalShortCircuit ==
  [][\A p \in Procs :
       (TrackReceived(p) /\ pc'[p] = "geo") =>
         LET ip == getClientIP(req'[p].client)
             short == listedLocal(ip) \/ ip = <<"::1">> \/ ip = <<"unknown">>
         IN /\ short =>
                 /\ geo'[p] = "local"
                 /\ \A o \in LookupOutcomes : getLocationFromIP(ip, o) = localLocation
            /\ ~short => geo'[p] = "fetch"]_vars

\* a request from 172.16.0.1 was recorded with the local sentinel, no lookup made
C11_Witness ==
  /\ pc[1] = "done"
  /\ geo[1] = "local"
  /\ getClientIP(req[1].client) = <<"172","16","0","1">>
  /\ Len(visitors) = 1
  /\ visitors[1].country = Some("Local")

\* C12: every tracking request that waits for its location reaches its
\* response, even when the lookup service never answers.
C12_TrackTerminates == \A p \in Procs : (pc[p] = "geo") ~> (pc[p] = "done")

\* the browser the ordered rule list of the statement gives
ruleListBrowser(ua) ==
  LET has(m) == includes(ua, m)
      rules == << <<has(m_chrome) /\ ~has(m_edg), "Chrome">>,
                  <<has(m_firefox), "Firefox">>,
                  <<has(m_safari) /\ ~has(m_chrome), "Safari">>,
                  <<has(m_edg), "Edge">>,
                  <<has(m_opera) \/ has(m_opr), "Opera">>,
                  <<TRUE, "Unknown">> >>
      first == CHOOSE i \in 1..Len(rules) :
                 rules[i][1] /\ \A j \in 1..(i - 1) : ~rules[j][1]
  IN rules[first][2]

\* C13: the browser recorded for a visit is 'Edge' when the lower-cased
\* user-agent contains 'edg' and 'chrome' and no 'firefox', 'Chrome' when it
\* contains 'chrome' without 'edg', 'Safari' when it contains 'safari' without
\* 'chrome', 'firefox' or 'edg', and in every case the result of the first
\* matching rule of the list Chrome, Firefox, Safari, Edge, Opera, Unknown.
C13_BrowserRules ==
  \A i \in RowIds(visitors) :
    LET ua == toLowerCase(OrSeq(visitors[i].user_agent, Some(<<>>))[1])
        has(m) == includes(ua, m)
        browser == visitors[i].browser
    IN /\ (has(m_edg) /\ has(m_chrome) /\ ~has(m_firefox)) => browser = Some("Edge")
       /\ (has(m_chrome) /\ ~has(m_edg)) => browser = Some("Chrome")
       /\ (has(m_safari) /\ ~has(m_chrome) /\ ~has(m_firefox) /\ ~has(m_edg))
            => browser = Some("Safari")
       /\ browser = Some(ruleListBrowser(ua))

\* a visit from an agent naming Chrome, Edg and Safari was recorded as Edge
C13_Witness ==
  \E i \in RowIds(visitors) :
    LET ua == toLowerCase(OrSeq(visitors[i].user_agent, Some(<<>>))[1])
    IN /\ includes(ua, m_edg) /\ includes(ua, m_chrome) /\ includes(ua, m_safari)
       /\ visitors[i].browser = Some("Edge")

\* C14: a lookup of a link by alias answers no link whose expiration is set
\* and before the current time, and answers NotFound when the only active
\* link of that alias has expired, whether or not a sweep ran before.
C14_ExpiredNeverResolved ==
  [][\A a \in Aliases :
       GetLinks(Some(a)) =>
         /\ httpResp'.link # None =>
              LET l == httpResp'.link[1].link
              IN /\ l.is_active
                 /\ ~(l.expires_at # None /\ l.expires_at[1] < now)
         /\ (\A i \in RowIds(links) :
               (links[i].alias = a /\ links[i].is_active) =>
                 (links[i].expires_at # None /\ links[i].expires_at[1] < now))
            => httpResp'.status = 404]_vars

\* a lookup answered NotFound while a link past its expiration is in the table
C14_Witness ==
  /\ httpResp.op = "GET"
  /\ httpResp.status = 404
  /\ \E i \in RowIds(links) :
       /\ links[i].expires_at # None /\ links[i].expires_at[1] < now
       /\ ~links[i].is_active
       /\ links[i].click_count > 0

\* C15: the listing answered by GET links without an alias holds exactly the
\* links whose active flag is true.
C15_ListingActiveOnly ==
  (httpResp.op = "GET" /\ httpResp.status = 200 /\ httpResp.link = None) =>
    {httpResp.links[i].link.id : i \in DOMAIN httpResp.links}
      = {i \in RowIds(links) : links[i].is_active}

\* C20: a tracking request answered 200 appends exactly one visit row, of the
\* tracked link, and adds one to that link's click_count; every other field of
\* the link, every other link and every existing visit row stay as they were.
C20_TrackFrame ==
  [][\A p \in Procs :
       (pc[p] # "done" /\ pc'[p] = "done" /\ trackResp'[p].status = 200) =>
         LET l == req'[p].linkId
         IN /\ Len(visitors') = Len(visitors) + 1
            /\ SubSeq(visitors', 1, Len(visitors)) = visitors
            /\ newVisitor.link_id = l
            /\ Len(links') = Len(links)
            /\ links'[l].click_count = links[l].click_count + 1
            /\ [links'[l] EXCEPT !.click_count = 0] = [links[l] EXCEPT !.click_count = 0]
            /\ \A i \in RowIds(links) : i # l => links'[i] = links[i]]_vars

\* both links were tracked once: two rows, and each counter at one
C20_Witness ==
  /\ \A p \in Procs : pc[p] = "done" /\ trackResp[p].status = 200
  /\ Len(visitors) = 2
  /\ visitors[1].link_id # visitors[2].link_id
  /\ \A i \in RowIds(links) : links[i].click_count = 1

\* the database before and after the step
dbNow == [links |-> links, visitors |-> visitors]
dbNext == [links |-> links', visitors |-> visitors']

\* C16: a step that deactivates a link, by deleteLink or by the expiration
\* sweep, leaves every visit row of the link in the store and leaves the
\* analytics of the link as they were, for every window.
C16_DeactivationKeepsAnalytics ==
  [][\A l \in RowIds(links) :
       (links[l].is_active /\ ~links'[l].is_active) =>
         /\ \A i \in RowIds(visitors) :
              visitors[i].link_id = l => (i \in RowIds(visitors') /\ visitors'[i] = visitors[i])
         /\ \A d \in DaysParams :
              getAnalytics(dbNext, Some(l), requestedDays(d), now')
                = getAnalytics(dbNow, Some(l), requestedDays(d), now)]_vars

\* the analytics of a deactivated link were answered, with its visits in them
C16_Witness ==
  /\ ~links[1].is_active
  /\ httpResp.op = "ANALYTICS"
  /\ httpResp.status = 200
  /\ httpResp.analytics.overview.totalClicks = totalClicks(visitors, 1)
  /\ httpResp.analytics.overview.totalClicks > 1
  /\ Len(httpResp.analytics.recentActivity) > 1
  /\ \A i \in DOMAIN httpResp.analytics.recentActivity :
       httpResp.analytics.recentActivity[i].link_id = 1

\* the request ranges over no visit: the table is empty, or holds no visit of the link
noVisits(linkId) ==
  IF linkId = None THEN visitors = <<>>
  ELSE \A i \in RowIds(visitors) : visitors[i].link_id # linkId[1]

\* C17: analytics over an empty visit set answer totalClicks 0, uniqueVisitors
\* 0, empty country, city, device and browser distributions, empty daily and
\* hourly buckets, and avgClicksPerDay 0.
C17_EmptyAnalytics ==
  [][\A l \in LinkQueries, d \in DaysParams :
       (GetAnalytics(l, d) /\ noVisits(l)) =>
         /\ httpResp'.status = 200
         /\ httpResp'.analytics.overview =
              [totalClicks |-> 0, uniqueVisitors |-> 0, countries |-> 0,
               avgClicksPerDay |-> [kind |-> "finite", value |-> 0]]
         /\ httpResp'.analytics.demographics =
              [countries |-> <<>>, topCities |-> <<>>, devices |-> <<>>, browsers |-> <<>>]
         /\ DOMAIN httpResp'.analytics.timeline.dailyVisits = {}
         /\ DOMAIN httpResp'.analytics.timeline.hourlyStats = {}]_vars

\* C18: for every window length of zero or more days the divisor of the
\* average is not zero and avgClicksPerDay is the total count divided by the
\* days of the window, rounded to the nearest integer.
C18_AverageDivisor ==
  [][\A l \in LinkQueries, d \in DaysParams :
       LET days == requestedDays(d)
       IN (GetAnalytics(l, d) /\ days.kind = "finite" /\ days.value >= 0) =>
            /\ days.value # 0
            /\ httpResp'.status = 200
            /\ LET total == httpResp'.analytics.overview.totalClicks
                   avg == httpResp'.analytics.overview.avgClicksPerDay
               IN /\ avg.kind = "finite"
                  /\ 2 * days.value * avg.value <= 2 * total + days.value
                  /\ 2 * total + days.value < 2 * days.value * (avg.value + 1)]_vars

\* C19: the recentActivity answered for a link holds the min(20, n) latest of
\* the link's n visits, in descending order of their time.
C19_RecentActivity ==
  [][\A l \in RowIds(links), d \in DaysParams :
       GetAnalytics(Some(l), d) =>
         LET n == Cardinality({i \in RowIds(visitors) : visitors[i].link_id = l})
             recent == httpResp'.analytics.recentActivity
         IN /\ Len(recent) = IF n < 20 THEN n ELSE 20
            /\ \A i \in DOMAIN recent : recent[i].link_id = l
            /\ \A i, j \in DOMAIN recent : i < j => recent[i].visited_at >= recent[j].visited_at]_vars

\* C21: no step removes a link row or a visit row, and no step changes a
\* persisted visit row: the link ids of the table and its visit rows only grow.
C21_RowsOnlyGrow ==
  [][/\ {links[i].id : i \in RowIds(links)} \subseteq {links'[i].id : i \in RowIds(links')}
     /\ Len(visitors) <= Len(visitors')
     /\ SubSeq(visitors', 1, Len(visitors)) = visitors]_vars

\* updateLink has run, and a deactivated link still stands with its visit
C21_Witness ==
  /\ nUpdates > 0
  /\ Len(visitors) > 0
  /\ \E i \in RowIds(links) :
       ~links[i].is_active /\ \E v \in RowIds(visitors) : visitors[v].link_id = links[i].id

\* C22: every visit row's link_id is the id of a link row of the store,
\* whatever the link's active flag.
C22_VisitNamesLink ==
  \A v \in RowIds(visitors) :
    \E i \in RowIds(links) : links[i].id = visitors[v].link_id

\* a visit row names a link that has since been deactivated
C22_Witness ==
  \E v \in RowIds(visitors) :
    \E i \in RowIds(links) : links[i].id = visitors[v].link_id /\ ~links[i].is_active

\* C23: a visit whose lower-cased user-agent contains 'opera' or 'opr'
\* together with 'chrome' and 'safari', and neither 'edg' nor 'firefox', is
\* recorded with browser 'Opera'.
C23_OperaRecognised ==
  \A i \in RowIds(visitors) :
    LET ua == toLowerCase(OrSeq(visitors[i].user_agent, Some(<<>>))[1])
        has(m) == includes(ua, m)
    IN ((has(m_opera) \/ has(m_opr)) /\ has(m_chrome) /\ has(m_safari)
          /\ ~has(m_edg) /\ ~has(m_firefox))
       => visitors[i].browser = Some("Opera")

\* C24: the sweep clears is_active on exactly the links whose expiration is
\* set and strictly before now; every other link, every other field of every
\* link and every visit row stay as they were.
C24_SweepFrame ==
  [][GetLinks(None) =>
       /\ visitors' = visitors
       /\ Len(links') = Len(links)
       /\ \A i \in RowIds(links) :
            links'[i] = IF links[i].expires_at # None /\ links[i].expires_at[1] < now
                        THEN [links[i] EXCEPT !.is_active = FALSE]
                        ELSE links[i]]_vars

\* the sweep ran after the clock passed link 1's expiration: link 1 is
\* inactive, link 2 without expiration is active, and the visit is in place
C24_Witness ==
  /\ httpResp.op = "GET"
  /\ now = 1
  /\ Len(links) = 2
  /\ links[1].expires_at = Some(0) /\ ~links[1].is_active
  /\ links[2].expires_at = None /\ links[2].is_active
  /\ Len(visitors) > 0

\* C30: the visit a successful tracking request reports has the latitude,
\* longitude, country, city, device, browser and user-agent of the row it
\* persisted.
C30_ReturnedIsStored ==
  \A p \in Procs :
    (pc[p] = "done" /\ trackResp[p].status = 200) =>
      LET v == trackResp[p].visitor[1]
          row == visitors[v.id]
      IN /\ v.latitude = row.latitude
         /\ v.longitude = row.longitude
         /\ v.country = row.country
         /\ v.city = row.city
         /\ v.device = row.device
         /\ v.browser = row.browser
         /\ v.user_agent = row.user_agent

\* the sum of the counts of a bucket object
RECURSIVE sumOfBuckets(_)
sumOfBuckets(f) ==
  IF DOMAIN f = {} THEN 0
  ELSE LET k == CHOOSE k \in DOMAIN f : TRUE
       IN f[k] + sumOfBuckets([j \in DOMAIN f \ {k} |-> f[j]])

\* the sum of the counts of a list of entries
RECURSIVE sumOfEntries(_)
sumOfEntries(es) ==
  IF es = <<>> THEN 0 ELSE es[1].count + sumOfEntries(Tail(es))

\* C25: the totals and the buckets of one analytics answer count the same
\* visits: totalClicks is the sum of the daily counts, of the hourly counts
\* and of the device counts.
C25_SameVisitSet ==
  (httpResp.op = "ANALYTICS" /\ httpResp.status = 200) =>
    LET a == httpResp.analytics
    IN /\ a.overview.totalClicks = sumOfBuckets(a.timeline.dailyVisits)
       /\ a.overview.totalClicks = sumOfBuckets(a.timeline.hourlyStats)
       /\ a.overview.totalClicks = sumOfEntries(a.demographics.devices)

\* the visits of link l whose time lies in the window of the last n days
inWindow(l, n) ==
  {i \in RowIds(visitors) :
     /\ visitors[i].link_id = l
     /\ now - 24 * n <= visitors[i].visited_at
     /\ visitors[i].visited_at < now}

\* C26: analytics asked for a link and a window of days count, in the daily
\* and hourly buckets and in the device, browser and city distributions, only
\* the link's visits inside the window.
C26_LinkAndWindow ==
  [][\A l \in RowIds(links), d \in DaysParams :
       LET days == requestedDays(d)
       IN (GetAnalytics(Some(l), d) /\ days.kind = "finite" /\ days.value > 0) =>
            LET a == httpResp'.analytics
                n == Cardinality(inWindow(l, days.value))
            IN /\ sumOfBuckets(a.timeline.dailyVisits) = n
               /\ sumOfBuckets(a.timeline.hourlyStats) = n
               /\ sumOfEntries(a.demographics.devices) = n
               /\ sumOfEntries(a.demographics.browsers) = n
               /\ sumOfEntries(a.demographics.topCities)
                    = Cardinality({i \in inWindow(l, days.value) : visitors[i].city # None})]_vars

\* the visits an analytics request selects: those of the link, or those of
\* the window of the last n days
selectedVisits(linkId, n) ==
  IF linkId # None THEN {i \in RowIds(visitors) : visitors[i].link_id = linkId[1]}
  ELSE {i \in RowIds(visitors) :
          now - 24 * n <= visitors[i].visited_at /\ visitors[i].visited_at <= now}

\* es is the distribution of the values vals[i], i in S: one entry per
\* distinct present value with its count, by non-increasing count, the ten
\* most frequent at most
isDistribution(es, vals, S) ==
  LET present == {i \in S : vals[i] # None}
      distinct == {vals[i][1] : i \in present}
      countIn(k) == Cardinality({i \in present : vals[i][1] = k})
  IN /\ Len(es) = IF Cardinality(distinct) < 10 THEN Cardinality(distinct) ELSE 10
     /\ \A i \in DOMAIN es : es[i].key \in distinct /\ es[i].count = countIn(es[i].key)
     /\ \A i, j \in DOMAIN es : i < j => (es[i].key # es[j].key /\ es[i].count >= es[j].count)
     /\ \A k \in distinct :
          (\A i \in DOMAIN es : es[i].key # k) => \A i \in DOMAIN es : es[i].count >= countIn(k)

\* C27: the country and the city distribution of an analytics answer hold one
\* entry per distinct present value among the selected visits with its exact
\* count, by non-increasing count, at most ten entries; visits without a
\* country (a city) are in no entry.
C27_Distributions ==
  [][\A l \in LinkQueries, d \in DaysParams :
       LET days == requestedDays(d)
       IN (GetAnalytics(l, d) /\ days.kind = "finite" /\ days.value > 0) =>
            LET a == httpResp'.analytics
                S == selectedVisits(l, days.value)
            IN /\ isDistribution(a.demographics.countries,
                                 [i \in RowIds(visitors) |-> visitors[i].country], S)
               /\ isDistribution(a.demographics.topCities,
                                 [i \in RowIds(visitors) |-> visitors[i].city], S)]_vars

\* C28: no visit row is inserted for a link that is inactive at the moment of
\* the insert, also when the link was deactivated while the request waited
\* for its location.
C28_NoInsertForInactive ==
  [][Len(visitors') > Len(visitors) => links[newVisitor.link_id].is_active]_vars

\* C29: each link's click_count is at most the number of its visit rows, and
\* equals it whenever no request stands between its insert and its increment
\* (the handler runs the two without suspending, so no state lies between them).
C29_CounterMatchesRows ==
  \A i \in RowIds(links) :
    LET rows == Cardinality({v \in RowIds(visitors) : visitors[v].link_id = links[i].id})
    IN links[i].click_count <= rows /\ links[i].click_count = rows

====
